---- MODULE Spec2Model ----
(***************************************************************************)
(* Model of the Trust Then Verify SDK (src/src/index.ts).                  *)
(*                                                                         *)
(* Two parts of the SDK are modelled:                                      *)
(*   - the trust gate: TrustClient.safeFetch, lookup, isTrusted, getTier   *)
(*     and checkBeforeTransaction, one invocation at a time, with the      *)
(*     registry's answer chosen by the environment (specification Spec);   *)
(*   - ensureRegistered, run by several clients concurrently against one   *)
(*     registry (specification SpecRegister).                              *)
(*                                                                         *)
(* Every async function has its awaits as the only suspension points, so   *)
(* one action issues the request and one action is the continuation that   *)
(* runs when the response (or the rejection) of fetch arrives.             *)
(***************************************************************************)
EXTENDS Integers, Sequences, FiniteSets, TLC

VARIABLES
    pc,         \* gate: "idle" | "awaiting" | "returned" | "thrown"
    op,         \* gate: the function invoked
    arg,        \* gate: amountSats of checkBeforeTransaction, score of getTier
    resp,       \* gate: what fetch produced for the invocation's request
    requests,   \* gate: read requests issued by the current invocation
    result,     \* gate: the value returned or the error thrown
    agents,     \* registry: the registered agents, in listing order
    nextId,     \* registry: the id the next registered agent receives
    rpc,        \* ensureRegistered: position of each client
    rname,      \* ensureRegistered: options.name of each client
    rlist,      \* ensureRegistered: response of the listing request
    rresult     \* ensureRegistered: the id returned or the error thrown

gateVars == <<pc, op, arg, resp, requests, result>>
regVars  == <<agents, nextId, rpc, rname, rlist, rresult>>
vars     == <<pc, op, arg, resp, requests, result,
              agents, nextId, rpc, rname, rlist, rresult>>

(***************************************************************************)
(* Bounds of the model.                                                    *)
(***************************************************************************)
ScoreSlack  == 1   \* scores within this distance of each tier boundary
AmountSlack == 1   \* amounts within this distance of each amount boundary
NumClients  == 2   \* clients that run ensureRegistered concurrently
MaxInitial  == 1   \* named agents the registry holds at the start
MaxNamed    == 2   \* named agents the registry comes to hold

Clients == 1..NumClients

\* Totals the registry may send: around 0, 20, 40, 60, 80, 100, so below 0
\* and above 100 too.
Scores == { b + d : b \in {0, 20, 40, 60, 80, 100}, d \in -ScoreSlack..ScoreSlack }

\* Amounts of a transaction: 0 and the values around 1000 and 10000.
Amounts == {0} \cup { b + d : b \in {1000, 10000}, d \in -AmountSlack..AmountSlack }

\* Statuses the registry may answer with.
HttpStatuses == {200, 401, 404, 429, 500, 502, 503, 504}

(***************************************************************************)
(* fetch: either the promise rejects (transport failure) or it resolves    *)
(* with a response.  total is the trust_score.total of the JSON body.      *)
(***************************************************************************)
NoResponse == [transport |-> "none", status |-> 0, total |-> 0]

Rejected == [transport |-> "rejected", status |-> 0, total |-> 0]

Resolved(status, total) == [transport |-> "resolved", status |-> status, total |-> total]

\* Response.ok of the Fetch API: the status is in the range 200-299.
ok(res) == res.status >= 200 /\ res.status <= 299

(***************************************************************************)
(* TrustClient                                                             *)
(***************************************************************************)
TrustRegistryOfflineError == [kind |-> "throw", error |-> "TrustRegistryOfflineError"]

Return(v) == [kind |-> "return", value |-> v]

\* safeFetch without the 504 case.
safeFetchNo504(net) ==
    IF net.transport = "rejected"
    THEN TrustRegistryOfflineError
    ELSE IF net.status = 502 \/ net.status = 503
         THEN TrustRegistryOfflineError
         ELSE Return(net)

safeFetch(net) ==
    IF net.transport = "rejected"
    THEN TrustRegistryOfflineError
    ELSE IF net.status = 502 \/ net.status = 503 \/ net.status = 504
         THEN TrustRegistryOfflineError
         ELSE Return(net)

null == [isNull |-> TRUE, trust_score |-> [total |-> 0]]

json(res) == [isNull |-> FALSE, trust_score |-> [total |-> res.total]]

\* lookup that fails on a response that is not ok instead of returning null.
lookupThrowsNotOk(net) ==
    LET res == safeFetch(net) IN
    IF res.kind = "throw" THEN res
    ELSE IF ~ok(res.value) THEN [kind |-> "throw", error |-> "Error"]
    ELSE Return(json(res.value))

lookup(net) ==
    LET res == safeFetch(net) IN
    IF res.kind = "throw" THEN res
    ELSE IF ~ok(res.value) THEN Return(null)
    ELSE Return(json(res.value))

isTrusted(net) ==
    LET r == lookup(net) IN
    IF r.kind = "throw" THEN r
    ELSE IF r.value.isNull THEN Return(FALSE)
    ELSE Return(r.value.trust_score.total >= 60)

\* getTier with exclusive lower bounds.
getTierExclusive(score) ==
    IF score > 80 THEN [label |-> "Highly Trusted", safe |-> TRUE]
    ELSE IF score > 60 THEN [label |-> "Trusted", safe |-> TRUE]
    ELSE IF score > 40 THEN [label |-> "Moderate", safe |-> FALSE]
    ELSE IF score > 20 THEN [label |-> "New/Limited", safe |-> FALSE]
    ELSE [label |-> "Unverified", safe |-> FALSE]

getTier(score) ==
    IF score >= 80 THEN [label |-> "Highly Trusted", safe |-> TRUE]
    ELSE IF score >= 60 THEN [label |-> "Trusted", safe |-> TRUE]
    ELSE IF score >= 40 THEN [label |-> "Moderate", safe |-> FALSE]
    ELSE IF score >= 20 THEN [label |-> "New/Limited", safe |-> FALSE]
    ELSE [label |-> "Unverified", safe |-> FALSE]

(***************************************************************************)
(* checkBeforeTransaction                                                  *)
(***************************************************************************)
\* requiredScore with the amount boundaries in the higher band.
requiredScoreInclusive(amountSats) ==
    IF amountSats >= 10000 THEN 60 ELSE IF amountSats >= 1000 THEN 40 ELSE 20

requiredScore(amountSats) ==
    IF amountSats > 10000 THEN 60 ELSE IF amountSats > 1000 THEN 40 ELSE 20

proceedRiskLevel(tier) == IF tier.safe THEN "low" ELSE "medium"

\* The deny path driven by the tier instead of the score < 20 cutoff.
denyRiskLevelByTier(score) == IF getTier(score).safe THEN "medium" ELSE "high"

denyRiskLevel(score) == IF score < 20 THEN "high" ELSE "medium"

\* The reason strings are templates; the values interpolated into them are
\* kept beside the template.
Reason(text, label, score, required, amount) ==
    [text |-> text, label |-> label, score |-> score,
     requiredScore |-> required, amountSats |-> amount]

NotFoundRecommendation ==
    [proceed   |-> FALSE,
     score     |-> 0,
     reason    |-> Reason("Agent not found in registry. Unverified counterparty.", "", 0, 0, 0),
     riskLevel |-> "unknown"]

checkBeforeTransaction(net, amountSats) ==
    LET r == lookup(net) IN
    IF r.kind = "throw" THEN r
    ELSE IF r.value.isNull THEN Return(NotFoundRecommendation)
    ELSE
      LET score == r.value.trust_score.total
          tier  == getTier(score)
          required == requiredScore(amountSats)
      IN  IF score >= required
          THEN Return([proceed   |-> TRUE,
                       score     |-> score,
                       reason    |-> Reason("${tier.label} agent with score ${score}/100",
                                            tier.label, score, 0, 0),
                       riskLevel |-> proceedRiskLevel(tier)])
          ELSE Return([proceed   |-> FALSE,
                       score     |-> score,
                       reason    |-> Reason("Score ${score}/100 below threshold ${requiredScore} for ${amountSats} sats transaction",
                                            "", score, required, amountSats),
                       riskLevel |-> denyRiskLevel(score)])

(***************************************************************************)
(* The gate as a state machine: one invocation at a time.                  *)
(***************************************************************************)
NoResult == [kind |-> "none"]

InitGate ==
    /\ pc = "idle"
    /\ op = "none"
    /\ arg = 0
    /\ resp = NoResponse
    /\ requests = 0
    /\ result = NoResult

\* An invocation of a function that reads the registry runs up to its
\* await of fetch: the request is on the wire.
Invoke(f, a) ==
    /\ pc = "idle"
    /\ pc' = "awaiting"
    /\ op' = f
    /\ arg' = a
    /\ resp' = NoResponse
    /\ requests' = 1
    /\ result' = NoResult
    /\ UNCHANGED regVars

CallCheckBeforeTransaction == \E amountSats \in Amounts : Invoke("checkBeforeTransaction", amountSats)

CallLookup == Invoke("lookup", 0)

CallIsTrusted == Invoke("isTrusted", 0)

\* getTier is synchronous and reads nothing.
CallGetTier ==
    \E score \in Scores :
        /\ pc = "idle"
        /\ pc' = "returned"
        /\ op' = "getTier"
        /\ arg' = score
        /\ resp' = NoResponse
        /\ requests' = 0
        /\ result' = Return(getTier(score))
        /\ UNCHANGED regVars

\* The function invoked, applied to what fetch produced.
Outcome(f, net, a) ==
    CASE f = "checkBeforeTransaction" -> checkBeforeTransaction(net, a)
      [] f = "lookup"                 -> lookup(net)
      [] f = "isTrusted"              -> isTrusted(net)

\* The continuation after the await: the function runs to its end.
Continue(net) ==
    LET out == Outcome(op, net, arg) IN
    /\ pc = "awaiting"
    /\ resp' = net
    /\ result' = out
    /\ pc' = IF out.kind = "throw" THEN "thrown" ELSE "returned"
    /\ UNCHANGED <<op, arg, requests>>
    /\ UNCHANGED regVars

\* A rejected fetch that is tried again instead of failing the invocation.
FetchRejectsRetry ==
    /\ pc = "awaiting"
    /\ requests < 3
    /\ requests' = requests + 1
    /\ UNCHANGED <<pc, op, arg, resp, result>>
    /\ UNCHANGED regVars

\* fetch rejects: the registry is unreachable.
FetchRejects == Continue(Rejected)

\* fetch resolves with a response of the registry.  The body carries a
\* trust score only in a successful response.
FetchResolves ==
    \E status \in HttpStatuses :
        \E total \in (IF status = 200 THEN Scores ELSE {0}) :
            Continue(Resolved(status, total))

\* The caller has taken the outcome; the next invocation may start.
Finish ==
    /\ pc \in {"returned", "thrown"}
    /\ pc' = "idle"
    /\ op' = "none"
    /\ arg' = 0
    /\ resp' = NoResponse
    /\ requests' = 0
    /\ result' = NoResult
    /\ UNCHANGED regVars

(***************************************************************************)
(* ensureRegistered, and the registry it talks to.                         *)
(*                                                                         *)
(* A name is a sequence of characters.                                     *)
(***************************************************************************)
Names == { <<"B", "o", "t">>, <<"b", "o", "t">>, <<"c", "a", "t">> }

\* String.prototype.toLowerCase, on the characters that occur in Names.
toLowerCase(str) ==
    [i \in 1..Len(str) |->
        CASE str[i] = "B" -> "b"
          [] str[i] = "C" -> "c"
          [] OTHER -> str[i]]

\* The limit ensureRegistered passes to listAgents.
PageLimit == 50

\* Agents of other parties that fill the first page of the listing: their
\* names x, xx, xxx, ... differ from every name of Names.
Fillers == [i \in 1..PageLimit |-> [id |-> i, name |-> [k \in 1..i |-> "x"]]]

IsFiller(a) == \A k \in 1..Len(a.name) : a.name[k] = "x"

\* The number of agents of list that are not fillers.
Named(list) == Cardinality({ i \in 1..Len(list) : ~IsFiller(list[i]) })

\* Some agent of list has the name, case-insensitively.
HoldsName(list, name) ==
    \E i \in 1..Len(list) : toLowerCase(list[i].name) = toLowerCase(name)

\* No two agents of list have the same name, case-insensitively.
NoDuplicateNames(list) ==
    \A i, j \in 1..Len(list) :
        toLowerCase(list[i].name) = toLowerCase(list[j].name) => i = j

\* The registry's answer to GET /registry/agents?limit=n: the first page.
ListingBody(n) ==
    [agents      |-> SubSeq(agents, 1, IF Len(agents) < n THEN Len(agents) ELSE n),
     page        |-> 1,
     limit       |-> n,
     total       |-> Len(agents),
     total_pages |-> (Len(agents) + n - 1) \div n]

NoListing == [transport |-> "none", status |-> 0, body |-> <<>>]

listAgents(net) ==
    LET res == safeFetch(net) IN
    IF res.kind = "throw" THEN res
    ELSE IF ~ok(res.value)
         THEN Return([agents |-> <<>>, page |-> 1, limit |-> 50, total |-> 0, total_pages |-> 0])
         ELSE LET data == res.value.body IN
              Return([agents      |-> data.agents,
                      page        |-> IF data.page # 0 THEN data.page ELSE 1,
                      limit       |-> IF data.limit # 0 THEN data.limit ELSE 50,
                      total       |-> data.total,
                      total_pages |-> data.total_pages])

register(net) ==
    LET res == safeFetch(net) IN
    IF res.kind = "throw" THEN res
    ELSE IF ~ok(res.value) THEN [kind |-> "throw", error |-> "Error"]
    ELSE Return(res.value.body)

\* Array.prototype.find with the predicate of ensureRegistered: the index
\* of the first agent with the name, 0 when there is none.
find(list, name) ==
    IF HoldsName(list, name)
    THEN CHOOSE i \in 1..Len(list) :
            /\ toLowerCase(list[i].name) = toLowerCase(name)
            /\ \A j \in 1..(i - 1) : toLowerCase(list[j].name) # toLowerCase(name)
    ELSE 0

\* Registries at the start: up to MaxInitial named agents without a
\* duplicate name, after no or PageLimit agents of other parties.
RECURSIVE NamedLists(_)
NamedLists(n) ==
    IF n = 0 THEN { <<>> }
    ELSE NamedLists(n - 1) \cup
         { Append(l, nm) : l \in { m \in NamedLists(n - 1) : Len(m) = n - 1 }, nm \in Names }

WithIds(prefix, names) ==
    prefix \o [i \in 1..Len(names) |-> [id |-> Len(prefix) + i, name |-> names[i]]]

InitialRegistries ==
    { l \in { WithIds(prefix, names) : prefix \in { <<>>, Fillers }, names \in NamedLists(MaxInitial) } :
        NoDuplicateNames(l) }

InitClients ==
    /\ rpc = [c \in Clients |-> "idle"]
    /\ rname = [c \in Clients |-> <<>>]
    /\ rlist = [c \in Clients |-> NoListing]
    /\ rresult = [c \in Clients |-> NoResult]

InitRegister ==
    /\ agents \in InitialRegistries
    /\ nextId = Len(agents) + 1
    /\ InitClients

\* The registry of the gate's specification: empty, no client running.
InitRegisterIdle ==
    /\ agents = <<>>
    /\ nextId = 1
    /\ InitClients

InFlight == Cardinality({ c \in Clients : rpc[c] \in {"listSent", "listServed", "registerSent"} })

\* ensureRegistered up to its await of listAgents: the listing request is
\* on the wire.
CallEnsureRegistered(c) ==
    \E name \in Names :
        /\ rpc[c] = "idle"
        /\ Named(agents) + InFlight < MaxNamed
        /\ rpc' = [rpc EXCEPT ![c] = "listSent"]
        /\ rname' = [rname EXCEPT ![c] = name]
        /\ rlist' = [rlist EXCEPT ![c] = NoListing]
        /\ rresult' = [rresult EXCEPT ![c] = NoResult]
        /\ UNCHANGED <<agents, nextId>>
        /\ UNCHANGED gateVars

\* The registry answers the listing request from its content of the
\* moment, or fails to.
RegistryServesList(c) ==
    /\ rpc[c] = "listSent"
    /\ \E net \in { [transport |-> "rejected", status |-> 0, body |-> <<>>] }
                  \cup { [transport |-> "resolved", status |-> st,
                          body |-> IF st = 200 THEN ListingBody(PageLimit) ELSE <<>>] :
                         st \in HttpStatuses } :
            rlist' = [rlist EXCEPT ![c] = net]
    /\ rpc' = [rpc EXCEPT ![c] = "listServed"]
    /\ UNCHANGED <<agents, nextId, rname, rresult>>
    /\ UNCHANGED gateVars

\* The continuation of ensureRegistered after listAgents: it returns the
\* id of the agent found in the listing, or sends the register request.
ListContinues(c) ==
    LET result_ == listAgents(rlist[c]) IN
    /\ rpc[c] = "listServed"
    /\ IF result_.kind = "throw"
       THEN /\ rpc' = [rpc EXCEPT ![c] = "thrown"]
            /\ rresult' = [rresult EXCEPT ![c] = result_]
       ELSE LET existing == find(result_.value.agents, rname[c]) IN
            IF existing # 0
            THEN /\ rpc' = [rpc EXCEPT ![c] = "returned"]
                 /\ rresult' = [rresult EXCEPT ![c] = Return(result_.value.agents[existing].id)]
            ELSE /\ rpc' = [rpc EXCEPT ![c] = "registerSent"]
                 /\ UNCHANGED rresult
    /\ UNCHANGED <<agents, nextId, rname, rlist>>
    /\ UNCHANGED gateVars

\* The registry accepts the register request and stores the agent;
\* ensureRegistered returns the new id.
RegistryAccepts(c) ==
    LET out == register([transport |-> "resolved", status |-> 200,
                         body |-> [agent_id |-> nextId]]) IN
    /\ rpc[c] = "registerSent"
    /\ agents' = Append(agents, [id |-> nextId, name |-> rname[c]])
    /\ nextId' = nextId + 1
    /\ rpc' = [rpc EXCEPT ![c] = "returned"]
    /\ rresult' = [rresult EXCEPT ![c] = Return(out.value.agent_id)]
    /\ UNCHANGED <<rname, rlist>>
    /\ UNCHANGED gateVars

\* The register request fails: the registry is unreachable or answers with
\* a status that is not ok.  ensureRegistered raises what register raises.
RegistryRefuses(c) ==
    /\ rpc[c] = "registerSent"
    /\ \E net \in { [transport |-> "rejected", status |-> 0, body |-> <<>>] }
                  \cup { [transport |-> "resolved", status |-> st, body |-> <<>>] :
                         st \in HttpStatuses \ {200} } :
            rresult' = [rresult EXCEPT ![c] = register(net)]
    /\ rpc' = [rpc EXCEPT ![c] = "thrown"]
    /\ UNCHANGED <<agents, nextId, rname, rlist>>
    /\ UNCHANGED gateVars

\* The caller has taken the outcome; the client may call again.
FinishEnsureRegistered(c) ==
    /\ rpc[c] \in {"returned", "thrown"}
    /\ rpc' = [rpc EXCEPT ![c] = "idle"]
    /\ rname' = [rname EXCEPT ![c] = <<>>]
    /\ rlist' = [rlist EXCEPT ![c] = NoListing]
    /\ rresult' = [rresult EXCEPT ![c] = NoResult]
    /\ UNCHANGED <<agents, nextId>>
    /\ UNCHANGED gateVars

NextRegister ==
    \E c \in Clients :
        \/ CallEnsureRegistered(c)
        \/ RegistryServesList(c)
        \/ ListContinues(c)
        \/ RegistryAccepts(c)
        \/ RegistryRefuses(c)
        \/ FinishEnsureRegistered(c)

\* The gate is idle while the clients run ensureRegistered.
InitEnsureRegistered == InitGate /\ InitRegister

SpecRegister == InitEnsureRegistered /\ [][NextRegister]_vars

Init == InitGate /\ InitRegisterIdle

Next ==
    \/ CallCheckBeforeTransaction
    \/ CallLookup
    \/ CallIsTrusted
    \/ CallGetTier
    \/ FetchRejects
    \/ FetchResolves
    \/ Finish

Spec == Init /\ [][Next]_vars

(***************************************************************************)
(* Properties of the trust gate (specification Spec).                      *)
(***************************************************************************)
\* The invocation of f has ended, by a return or by an error.
Ended(f) == op = f /\ pc \in {"returned", "thrown"}

\* The invocation of f has returned a value.
Returned(f) == op = f /\ pc = "returned"

\* The registry answered the trust-score request successfully: the agent
\* was found.
Found == resp.transport = "resolved" /\ resp.status = 200

\* The registry answered that the agent does not exist.
AnsweredNoSuchAgent == resp.transport = "resolved" /\ resp.status = 404

\* The registry is down: fetch rejected or the status is 502, 503 or 504.
Outage ==
    \/ resp.transport = "rejected"
    \/ resp.transport = "resolved" /\ resp.status \in {502, 503, 504}

\* C1: getTier(s) returns, for every score s, the tier of the band of s by
\* inclusive lower bounds 80, 60, 40, 20, and Unverified below 20; it never
\* fails.
C1_GetTierBands ==
    Ended("getTier") =>
        /\ pc = "returned"
        /\ result.kind = "return"
        /\ (arg >= 80 => result.value = [label |-> "Highly Trusted", safe |-> TRUE])
        /\ (arg >= 60 /\ arg < 80 => result.value = [label |-> "Trusted", safe |-> TRUE])
        /\ (arg >= 40 /\ arg < 60 => result.value = [label |-> "Moderate", safe |-> FALSE])
        /\ (arg >= 20 /\ arg < 40 => result.value = [label |-> "New/Limited", safe |-> FALSE])
        /\ (arg < 20 => result.value = [label |-> "Unverified", safe |-> FALSE])

\* getTier has returned for a boundary score, which is in the higher band.
C1_Witness ==
    /\ Returned("getTier")
    /\ arg = 80
    /\ result.value.label = "Highly Trusted"

C3_RiskLevel ==
    (Returned("checkBeforeTransaction") /\ Found) =>
        LET r == result.value IN
        /\ (r.proceed /\ r.score >= 60 => r.riskLevel = "low")
        /\ (r.proceed /\ r.score < 60 => r.riskLevel = "medium")
        /\ (~r.proceed /\ r.score < 20 => r.riskLevel = "high")
        /\ (~r.proceed /\ r.score >= 20 => r.riskLevel = "medium")
        /\ r.riskLevel # "unknown"

\* A denial of an agent of an unsafe tier with a score of 20 or more.
C3_Witness ==
    /\ Returned("checkBeforeTransaction")
    /\ Found
    /\ ~result.value.proceed
    /\ result.value.score \in 20..59
    /\ result.value.riskLevel = "medium"

\* C4: when the registry answers that the agent does not exist,
\* checkBeforeTransaction returns, without raising, the denial with score 0,
\* riskLevel "unknown" and the not-found reason, for every amount.
C4_NotFoundDenial ==
    (Ended("checkBeforeTransaction") /\ AnsweredNoSuchAgent) =>
        /\ pc = "returned"
        /\ result.kind = "return"
        /\ result.value.proceed = FALSE
        /\ result.value.score = 0
        /\ result.value.riskLevel = "unknown"
        /\ result.value.reason.text = "Agent not found in registry. Unverified counterparty."

\* The not-found denial was returned for an amount in the highest band.
C4_Witness ==
    /\ Returned("checkBeforeTransaction")
    /\ AnsweredNoSuchAgent
    /\ arg > 10000
    /\ result.value.riskLevel = "unknown"

\* C5: when fetch rejects or the status is 502, 503 or 504,
\* checkBeforeTransaction, lookup and isTrusted end by raising
\* TrustRegistryOfflineError; no value is returned.
C5_OutageRaises ==
    ((Ended("checkBeforeTransaction") \/ Ended("lookup") \/ Ended("isTrusted")) /\ Outage) =>
        /\ pc = "thrown"
        /\ result.kind = "throw"
        /\ result.error = "TrustRegistryOfflineError"

\* checkBeforeTransaction raised on a 504 of the registry.
C5_Witness ==
    /\ op = "checkBeforeTransaction"
    /\ pc = "thrown"
    /\ resp.status = 504
    /\ result.error = "TrustRegistryOfflineError"

\* C6: lookup returns null, and checkBeforeTransaction the not-found denial,
\* only when the registry answered that the agent does not exist.
C6_NotFoundOnlyWhenNoSuchAgent ==
    /\ (Returned("lookup") /\ result.value.isNull => AnsweredNoSuchAgent)
    /\ (Returned("checkBeforeTransaction") /\ result.value.riskLevel = "unknown"
            => AnsweredNoSuchAgent)

\* C7: an invocation of checkBeforeTransaction has issued exactly one read
\* request from its start to its end, and the step that takes the request's
\* outcome, whichever it is, ends the invocation without another request.
C7_OneRequest ==
    [][ /\ (op' = "checkBeforeTransaction" /\ pc' # "idle" => requests' = 1)
        /\ (op = "checkBeforeTransaction" /\ pc = "awaiting"
                => pc' \in {"returned", "thrown"} /\ op' = op) ]_vars

\* checkBeforeTransaction failed on a rejected fetch after one request.
C7_Witness ==
    /\ op = "checkBeforeTransaction"
    /\ pc = "thrown"
    /\ resp.transport = "rejected"
    /\ requests = 1

\* C8: the score of the recommendation returned by checkBeforeTransaction
\* lies in 0..100, whatever total the registry sent.
C8_ScoreClamped ==
    Returned("checkBeforeTransaction") => result.value.score \in 0..100

\* C9: the bands as the README states them: found agent, amount below 1000
\* requires 20, amount from 1000 to 10000 requires 40, amount above 10000
\* requires 60.
C9_ReadmeBands ==
    (Returned("checkBeforeTransaction") /\ Found /\ result.value.proceed) =>
        /\ (arg < 1000 => result.value.score >= 20)
        /\ (arg >= 1000 /\ arg <= 10000 => result.value.score >= 40)
        /\ (arg > 10000 => result.value.score >= 60)


(***************************************************************************)
(* Properties of ensureRegistered (specification SpecRegister).            *)
(***************************************************************************)
\* C10: a register request for a name is sent only when the registry holds
\* no agent of that name, case-insensitively, and the registry never comes
\* to hold two agents of one name.
C10_RegisterOnlyOnFirstUse ==
    [][ /\ \A c \in Clients :
              (rpc[c] # "registerSent" /\ rpc'[c] = "registerSent")
                  => ~HoldsName(agents, rname[c])
        /\ NoDuplicateNames(agents) => NoDuplicateNames(agents') ]_vars

====
